---- MODULE Spec2Model ----
(***************************************************************************)
(* Model of map.py: the batch generator that reads the course workbook,    *)
(* builds one record and one marker per row with valid coordinates, and    *)
(* writes index.html (with the embedded filter script) and courses.json.   *)
(*                                                                         *)
(* Text is a sequence of one-character strings, so that strip, lower,      *)
(* startswith and the parsers are computed rather than assumed.            *)
(*                                                                         *)
(* The workbook has one sheet, so pandas and openpyxl read the same cells. *)
(* The popup markup, the map links and the Order column are not part of    *)
(* the record modelled here: no property below reads them.                 *)
(***************************************************************************)
EXTENDS Integers, Sequences, FiniteSets, TLC

(***************************************************************************)
(* Bounds of the model                                                     *)
(***************************************************************************)
\* data rows of a workbook
MaxRows == 2
\* blanks put before and after a Type text
MaxPad == 1

(***************************************************************************)
(* Python text primitives                                                  *)
(***************************************************************************)
UpperAlpha ==
  <<"A", "B", "C", "D", "E", "F", "G", "H", "I", "J", "K", "L", "M",
    "N", "O", "P", "Q", "R", "S", "T", "U", "V", "W", "X", "Y", "Z">>

LowerAlpha ==
  <<"a", "b", "c", "d", "e", "f", "g", "h", "i", "j", "k", "l", "m",
    "n", "o", "p", "q", "r", "s", "t", "u", "v", "w", "x", "y", "z">>

DigitChars == <<"0", "1", "2", "3", "4", "5", "6", "7", "8", "9">>

LowerChar(c) ==
  IF \E i \in DOMAIN UpperAlpha : UpperAlpha[i] = c
  THEN LowerAlpha[CHOOSE i \in DOMAIN UpperAlpha : UpperAlpha[i] = c]
  ELSE c

\* str.lower()
lower(s) == [i \in 1..Len(s) |-> LowerChar(s[i])]

IsSpace(c) == c \in {" ", "\t", "\n"}

RECURSIVE lstrip(_)
lstrip(s) == IF Len(s) > 0 /\ IsSpace(Head(s)) THEN lstrip(Tail(s)) ELSE s

RECURSIVE rstrip(_)
rstrip(s) ==
  IF Len(s) > 0 /\ IsSpace(s[Len(s)]) THEN rstrip(SubSeq(s, 1, Len(s) - 1)) ELSE s

\* str.strip()
strip(s) == rstrip(lstrip(s))

\* str.startswith(p)
startswith(s, p) == Len(s) >= Len(p) /\ SubSeq(s, 1, Len(p)) = p

\* p in s
Contains(s, p) ==
  \E i \in 1..(Len(s) + 1) : i + Len(p) - 1 <= Len(s) /\ SubSeq(s, i, i + Len(p) - 1) = p

IsDigit(c) == \E i \in DOMAIN DigitChars : DigitChars[i] = c

DigitVal(c) == (CHOOSE i \in DOMAIN DigitChars : DigitChars[i] = c) - 1

AllDigits(s) == Len(s) > 0 /\ \A i \in 1..Len(s) : IsDigit(s[i])

RECURSIVE DigitsToInt(_)
DigitsToInt(s) ==
  IF Len(s) = 0 THEN 0
  ELSE 10 * DigitsToInt(SubSeq(s, 1, Len(s) - 1)) + DigitVal(s[Len(s)])

RECURSIVE NatToStr(_)
NatToStr(n) ==
  IF n < 10 THEN <<DigitChars[n + 1]>>
  ELSE NatToStr(n \div 10) \o <<DigitChars[(n % 10) + 1]>>

\* str(n) of an integer
IntToStr(n) == IF n < 0 THEN <<"-">> \o NatToStr(0 - n) ELSE NatToStr(n)

(***************************************************************************)
(* Python values held by a cell or a DataFrame entry.  Every value is a    *)
(* record of the same shape: t is the Python type, s the text of a str,    *)
(* n the number of an int/float or the date of a Timestamp (yyyymmdd).     *)
(***************************************************************************)
PyStr(s) == [t |-> "str", s |-> s, n |-> 0]
PyNum(n) == [t |-> "num", s |-> <<>>, n |-> n]
PyTs(d) == [t |-> "ts", s |-> <<>>, n |-> d]
PyNaN == [t |-> "nan", s |-> <<>>, n |-> 0]
PyNone == [t |-> "none", s |-> <<>>, n |-> 0]

\* pd.isna(v) on a scalar
isna(v) == v.t \in {"nan", "none"}

\* str(v) for the values that reach it
str(v) == IF v.t = "str" THEN v.s ELSE IF v.t = "num" THEN IntToStr(v.n) ELSE <<>>

(***************************************************************************)
(* Config                                                                  *)
(***************************************************************************)
Public == <<"P", "u", "b", "l", "i", "c">>
Private == <<"P", "r", "i", "v", "a", "t", "e">>
SemiPrivate == <<"S", "e", "m", "i", "-", "P", "r", "i", "v", "a", "t", "e">>
Resort == <<"R", "e", "s", "o", "r", "t">>

\* the keys of TYPE_COLORS, in insertion order
TYPE_COLORS == <<Public, Private, SemiPrivate, Resort>>

TypeNames == {TYPE_COLORS[i] : i \in DOMAIN TYPE_COLORS}

\* the placeholder U+2014 (em dash), one character
EMDASH == <<"EM DASH">>

(***************************************************************************)
(* Helpers                                                                 *)
(***************************************************************************)
semi == <<"s", "e", "m", "i">>

\* a default bucket outside the fixed set, as a variant of the generator has
normalize_type_other(x) ==
  IF x.t # "str" \/ Len(strip(x.s)) = 0 THEN <<"O", "t", "h", "e", "r">>
  ELSE LET low == lower(strip(x.s)) IN
       IF low \in {<<"s", "e", "m", "i", " ", "p", "r", "i", "v", "a", "t", "e">>,
                   <<"s", "e", "m", "i", "-", "p", "r", "i", "v", "a", "t", "e">>,
                   semi}
       THEN SemiPrivate
       ELSE IF low = lower(Public) THEN Public
       ELSE IF low = lower(Private) THEN Private
       ELSE IF low = lower(Resort) THEN Resort
       ELSE <<"O", "t", "h", "e", "r">>

\* the compound category matched by exact text only, forgetting the bare keyword
normalize_type_nokeyword(x) ==
  IF x.t # "str" \/ Len(strip(x.s)) = 0 THEN Public
  ELSE LET low == lower(strip(x.s)) IN
       IF low \in {<<"s", "e", "m", "i", " ", "p", "r", "i", "v", "a", "t", "e">>,
                   <<"s", "e", "m", "i", "-", "p", "r", "i", "v", "a", "t", "e">>}
       THEN SemiPrivate
       ELSE IF low = lower(Public) THEN Public
       ELSE IF low = lower(Private) THEN Private
       ELSE IF low = lower(Resort) THEN Resort
       ELSE Public

normalize_type(x) ==
  IF x.t # "str" \/ Len(strip(x.s)) = 0 THEN Public
  ELSE LET low == lower(strip(x.s)) IN
       IF low \in {<<"s", "e", "m", "i", " ", "p", "r", "i", "v", "a", "t", "e">>,
                   <<"s", "e", "m", "i", "-", "p", "r", "i", "v", "a", "t", "e">>,
                   semi}
       THEN SemiPrivate
       ELSE IF low = <<"p", "u", "b", "l", "i", "c">> THEN Public
       ELSE IF low = <<"p", "r", "i", "v", "a", "t", "e">> THEN Private
       ELSE IF low = <<"r", "e", "s", "o", "r", "t">> THEN Resort
       ELSE Public

is_blank(v) == isna(v) \/ (v.t = "str" /\ Len(strip(v.s)) = 0)

\* the parts of s between the separators c
RECURSIVE Split(_, _)
Split(s, c) ==
  IF \E i \in 1..Len(s) : s[i] = c
  THEN LET k == CHOOSE i \in 1..Len(s) : s[i] = c /\ \A j \in 1..(i - 1) : s[j] # c
       IN <<SubSeq(s, 1, k - 1)>> \o Split(SubSeq(s, k + 1, Len(s)), c)
  ELSE <<s>>

\* pd.to_datetime(s, errors="coerce") on the month/day/year texts of the
\* model's inputs: the date as yyyymmdd, or 0 for NaT
to_datetime(s) ==
  LET p == Split(s, "/") IN
  IF Len(p) = 3 /\ AllDigits(p[1]) /\ AllDigits(p[2]) /\ AllDigits(p[3])
     /\ Len(p[1]) <= 2 /\ Len(p[2]) <= 2 /\ Len(p[3]) = 4
     /\ DigitsToInt(p[1]) \in 1..12 /\ DigitsToInt(p[2]) \in 1..31
  THEN DigitsToInt(p[3]) * 10000 + DigitsToInt(p[1]) * 100 + DigitsToInt(p[2])
  ELSE 0

\* strftime("%-m/%-d/%Y") of the date d = yyyymmdd
strftime(d) ==
  NatToStr((d \div 100) % 100) \o <<"/">> \o NatToStr(d % 100) \o <<"/">>
    \o NatToStr(d \div 10000)

fmt_date(v) ==
  IF isna(v) THEN EMDASH
  ELSE IF v.t = "ts" THEN strftime(v.n)
  ELSE LET s == strip(str(v)) IN
       IF Len(s) = 0 THEN EMDASH
       ELSE IF to_datetime(s) = 0 THEN s
       ELSE strftime(to_datetime(s))

clean_text(v) == IF is_blank(v) THEN <<>> ELSE strip(str(v))

(***************************************************************************)
(* The workbook co_courses.xlsx.  A cell holds a value and, possibly, a    *)
(* hyperlink annotation: link = "none" (no annotation), "loc" (an          *)
(* annotation without a target, such as a link into the workbook) or       *)
(* "url" (an annotation whose target is the text in target).               *)
(***************************************************************************)
Cell(v, link, target) == [v |-> v, link |-> link, target |-> target]

Plain(v) == Cell(v, "none", <<>>)

COURSE == <<"C", "o", "u", "r", "s", "e">>
ADDRESS == <<"A", "d", "d", "r", "e", "s", "s">>
CITY == <<"C", "i", "t", "y">>
TYPE == <<"T", "y", "p", "e">>
REGION == <<"R", "e", "g", "i", "o", "n">>
LAT == <<"L", "a", "t">>
LONG == <<"L", "o", "n", "g">>
ORDER == <<"O", "r", "d", "e", "r">>
FIRST_PLAYED == <<"1", "s", "t", " ", "P", "l", "a", "y", "e", "d">>
REEL == <<"R", "e", "e", "l">>

required_cols == <<COURSE, ADDRESS, CITY, TYPE, REGION, LAT, LONG>>

\* the columns a workbook of the model may carry, in sheet order
SheetCols == required_cols \o <<ORDER, FIRST_PLAYED, REEL>>

InSeq(x, q) == \E i \in DOMAIN q : q[i] = x

\* the position of label c in the labels q (the last one, as a dict keeps it)
ColPos(q, c) == CHOOSE i \in DOMAIN q : q[i] = c /\ \A j \in DOMAIN q : q[j] = c => j <= i

(***************************************************************************)
(* pandas                                                                  *)
(***************************************************************************)
\* pd.read_excel: the labels are the header values, every empty cell is NaN,
\* hyperlink annotations are not read
read_excel(book) ==
  [columns |-> book.headers,
   rows |-> [i \in 1..Len(book.rows) |->
               [idx |-> i,
                vals |-> [c \in 1..Len(book.rows[i]) |->
                            IF book.rows[i][c].v.t = "none" THEN PyNaN
                            ELSE book.rows[i][c].v]]]]

\* r[c] of a row of the frame
At(frame, r, c) == r.vals[ColPos(frame.columns, c)]

\* an optionally signed run of digits
IsNumericText(s) ==
  IF Len(s) > 0 /\ Head(s) = "-" THEN AllDigits(Tail(s)) ELSE AllDigits(s)

\* pd.to_numeric(v, errors="coerce") of one entry
to_numeric(v) ==
  IF v.t = "num" THEN v
  ELSE IF v.t = "str" /\ IsNumericText(v.s)
       THEN IF Head(v.s) = "-" THEN PyNum(0 - DigitsToInt(Tail(v.s)))
            ELSE PyNum(DigitsToInt(v.s))
  ELSE PyNaN

\* df[c]
Column(frame, c) == [i \in 1..Len(frame.rows) |-> At(frame, frame.rows[i], c)]

\* df[c] = col
SetCol(frame, c, col) ==
  [frame EXCEPT !.rows =
     [i \in 1..Len(frame.rows) |->
        [frame.rows[i] EXCEPT !.vals[ColPos(frame.columns, c)] = col[i]]]]

\* a row is dropped only when both coordinates are missing
dropna_both(frame) ==
  [frame EXCEPT !.rows =
     SelectSeq(frame.rows,
               LAMBDA r : ~(isna(At(frame, r, LAT)) /\ isna(At(frame, r, LONG))))]

\* df.dropna(subset=["Lat", "Long"])
dropna(frame) ==
  [frame EXCEPT !.rows =
     SelectSeq(frame.rows,
               LAMBDA r : ~isna(At(frame, r, LAT)) /\ ~isna(At(frame, r, LONG)))]

NormalizedCell(v) == PyStr(normalize_type(v))

(***************************************************************************)
(* extract_reel_links_xlsx                                                 *)
(***************************************************************************)
HTTP == <<"h", "t", "t", "p">>

EmptyMap == [k \in {} |-> <<>>]

\* dict.get(k, "")
Get(d, k) == IF k \in DOMAIN d THEN d[k] ELSE <<>>

\* d[k] = v
Put(d, k, v) == [x \in (DOMAIN d) \cup {k} |-> IF x = k THEN v ELSE d[x]]

\* the header dict of the sheet: stripped text of row 1 -> column
SheetHeaders(book) ==
  LET strs == {c \in 1..Len(book.headers) : book.headers[c].t = "str"}
      keys == {strip(book.headers[c].s) : c \in strs}
  IN [k \in keys |->
        CHOOSE c \in strs : strip(book.headers[c].s) = k
                            /\ \A d \in strs : strip(book.headers[d].s) = k => d <= c]

\* the display text wins over the annotation
CellUrl_textfirst(cell) ==
  IF cell.v.t = "str" /\ startswith(lower(strip(cell.v.s)), HTTP) THEN strip(cell.v.s)
  ELSE IF cell.link = "url" /\ Len(cell.target) > 0 THEN strip(cell.target)
  ELSE <<>>

\* the url one Reel cell resolves to
CellUrl(cell) ==
  LET url == IF cell.link = "url" /\ Len(cell.target) > 0 THEN strip(cell.target)
             ELSE <<>>
  IN IF Len(url) = 0
     THEN IF cell.v.t = "str" /\ startswith(lower(strip(cell.v.s)), HTTP)
          THEN strip(cell.v.s)
          ELSE <<>>
     ELSE url

(***************************************************************************)
(* State                                                                   *)
(***************************************************************************)
VARIABLES
  wb,               \* the workbook on disk: [headers, rows]
  pc,               \* where the run (then the viewer) stands
  error,            \* the exception that ended the run
  df,               \* the DataFrame
  has_first_played,
  has_reel,
  out,              \* extract_reel_links_xlsx: the dict being built
  xr,               \* extract_reel_links_xlsx: the data row being read
  reel_links,
  markers_meta,
  courses_export,
  features,
  files,            \* the output files written so far
  json,             \* the array written to courses.json
  page,             \* the markers array of the script written to index.html
  typeChecked,      \* viewer: the .type-toggle checkboxes
  playedOnly,       \* viewer: the playedOnly checkbox
  videoOnly,        \* viewer: the videoOnly checkbox
  layerOn,          \* viewer: mapObj.hasLayer(typeLayers[t])
  onMap             \* viewer: mapObj.hasLayer(markers[i].m)

runVars ==
  <<wb, error, df, has_first_played, has_reel, out, xr, reel_links,
    markers_meta, courses_export, features, files, json>>

viewVars == <<typeChecked, playedOnly, videoOnly, layerOn, onMap>>

vars == <<pc, page, runVars, viewVars>>

NoError == [kind |-> "", cols |-> <<>>]

EmptyFrame == [columns |-> <<>>, rows |-> <<>>]

EmptyBook == [headers |-> <<>>, rows |-> <<>>]

AllTypes(b) == [t \in TypeNames |-> b]

(***************************************************************************)
(* Load + validate data                                                    *)
(***************************************************************************)
\* only the first missing column is reported
MissingCols_first(frame) ==
  LET all == SelectSeq(required_cols, LAMBDA c : ~InSeq(c, frame.columns))
  IN IF Len(all) > 1 THEN <<Head(all)>> ELSE all

\* missing = [c for c in required_cols if c not in df.columns]
MissingCols(frame) == SelectSeq(required_cols, LAMBDA c : ~InSeq(c, frame.columns))

\* df = pd.read_excel(EXCEL_FILE); df = df.rename(columns=lambda c: c.strip())
\* A label that is not a str has no strip: the rename raises.
ReadExcel ==
  /\ pc = "start"
  /\ LET raw == read_excel(wb) IN
     IF \E i \in DOMAIN raw.columns : raw.columns[i].t # "str"
     THEN /\ pc' = "aborted"
          /\ error' = [kind |-> "AttributeError", cols |-> <<>>]
          /\ df' = raw
     ELSE /\ pc' = "validate"
          /\ error' = error
          /\ df' = [raw EXCEPT !.columns =
                      [i \in DOMAIN raw.columns |-> strip(raw.columns[i].s)]]
  /\ UNCHANGED <<wb, has_first_played, has_reel, out, xr, reel_links, markers_meta,
                 courses_export, features, files, json, page, viewVars>>

Validate ==
  /\ pc = "validate"
  /\ IF Len(MissingCols(df)) > 0
     THEN /\ pc' = "aborted"
          /\ error' = [kind |-> "ValueError", cols |-> MissingCols(df)]
     ELSE /\ pc' = "prepare"
          /\ error' = error
  /\ UNCHANGED <<wb, df, has_first_played, has_reel, out, xr, reel_links, markers_meta,
                 courses_export, features, files, json, page, viewVars>>

\* the flags, the Type column normalised, the coordinates made numeric, the
\* rows without coordinates dropped; the extractor is called only with a Reel column
Prepare ==
  /\ pc = "prepare"
  /\ has_first_played' = InSeq(FIRST_PLAYED, df.columns)
  /\ has_reel' = InSeq(REEL, df.columns)
  /\ LET typed == SetCol(df, TYPE,
                        [i \in 1..Len(df.rows) |-> NormalizedCell(Column(df, TYPE)[i])])
         lats == SetCol(typed, LAT,
                        [i \in 1..Len(df.rows) |-> to_numeric(Column(typed, LAT)[i])])
         longs == SetCol(lats, LONG,
                         [i \in 1..Len(df.rows) |-> to_numeric(Column(lats, LONG)[i])])
     IN df' = dropna(longs)
  /\ IF InSeq(REEL, df.columns)
     THEN pc' = "extract" /\ reel_links' = reel_links
     ELSE pc' = "loop" /\ reel_links' = EmptyMap
  /\ UNCHANGED <<wb, error, out, xr, markers_meta, courses_export, features,
                 files, json, page, viewVars>>

(***************************************************************************)
(* extract_reel_links_xlsx, one action per step of its loop                *)
(***************************************************************************)
\* the headers; without a Course or a Reel header the result is {}
ExtractOpen ==
  /\ pc = "extract"
  /\ IF COURSE \notin DOMAIN SheetHeaders(wb) \/ REEL \notin DOMAIN SheetHeaders(wb)
     THEN pc' = "loop" /\ reel_links' = EmptyMap /\ UNCHANGED <<out, xr>>
     ELSE pc' = "extract_rows" /\ out' = EmptyMap /\ xr' = 1 /\ reel_links' = reel_links
  /\ UNCHANGED <<wb, error, df, has_first_played, has_reel, markers_meta,
                 courses_export, features, files, json, page, viewVars>>

\* one data row: a row whose course is not a non-blank str is skipped
ExtractRow ==
  /\ pc = "extract_rows"
  /\ xr <= Len(wb.rows)
  /\ LET course == wb.rows[xr][SheetHeaders(wb)[COURSE]].v
         cell == wb.rows[xr][SheetHeaders(wb)[REEL]]
     IN IF course.t # "str" \/ Len(strip(course.s)) = 0
        THEN out' = out
        ELSE out' = Put(out, strip(course.s), CellUrl(cell))
  /\ xr' = xr + 1
  /\ UNCHANGED <<wb, pc, error, df, has_first_played, has_reel, reel_links,
                 markers_meta, courses_export, features, files, json, page, viewVars>>

ExtractReturn ==
  /\ pc = "extract_rows"
  /\ xr > Len(wb.rows)
  /\ reel_links' = out
  /\ pc' = "loop"
  /\ UNCHANGED <<wb, error, df, has_first_played, has_reel, out, xr, markers_meta,
                 courses_export, features, files, json, page, viewVars>>

(***************************************************************************)
(* Build map: the record loop                                              *)
(***************************************************************************)
first_played_val(frame, r, hfp) == IF hfp THEN fmt_date(At(frame, r, FIRST_PLAYED)) ELSE EMDASH

played_by_cam(frame, r, hfp) == first_played_val(frame, r, hfp) # EMDASH

reel_url(frame, r, hr, links, course) ==
  IF ~hr THEN <<>>
  ELSE IF Len(Get(links, course)) > 0 THEN Get(links, course)
  ELSE LET v == At(frame, r, REEL) IN
       IF v.t = "str" /\ startswith(lower(strip(v.s)), HTTP) THEN strip(v.s)
       ELSE <<>>

has_video_always(url) == TRUE

\* has_video = bool(reel_url)
has_video(url) == Len(url) > 0

\* the entry appended to courses_export (the fields the properties read)
ExportRecord(frame, r, hfp, hr, links) ==
  LET course == clean_text(At(frame, r, COURSE))
      url == reel_url(frame, r, hr, links, course)
  IN [name |-> course,
      type |-> normalize_type(At(frame, r, TYPE)),
      lat |-> At(frame, r, LAT).n,
      lng |-> At(frame, r, LONG).n,
      played |-> played_by_cam(frame, r, hfp),
      first_played |-> first_played_val(frame, r, hfp),
      video_url |-> url,
      has_video |-> has_video(url)]

BuildRow ==
  /\ pc = "loop"
  /\ Len(courses_export) < Len(df.rows)
  /\ LET rec == ExportRecord(df, df.rows[Len(courses_export) + 1],
                             has_first_played, has_reel, reel_links)
     IN /\ markers_meta' = Append(markers_meta,
                                  [type |-> rec.type, played |-> rec.played,
                                   video |-> rec.has_video])
        /\ courses_export' = Append(courses_export, rec)
  /\ UNCHANGED <<wb, pc, error, df, has_first_played, has_reel, out, xr, reel_links,
                 features, files, json, page, viewVars>>

\* the search index: one feature per row of the frame
BuildFeatures ==
  /\ pc = "loop"
  /\ Len(courses_export) = Len(df.rows)
  /\ features' = [i \in 1..Len(df.rows) |->
                    [Course |-> clean_text(At(df, df.rows[i], COURSE)),
                     coordinates |-> <<At(df, df.rows[i], LONG).n,
                                       At(df, df.rows[i], LAT).n>>]]
  /\ pc' = "save_html"
  /\ UNCHANGED <<wb, error, df, has_first_played, has_reel, out, xr, reel_links,
                 markers_meta, courses_export, files, json, page, viewVars>>

\* m.save(out_html_path): the script's markers array is markers_meta
SaveHtml ==
  /\ pc = "save_html"
  /\ page' = markers_meta
  /\ files' = files \cup {"index.html"}
  /\ pc' = "save_json"
  /\ UNCHANGED <<wb, error, df, has_first_played, has_reel, out, xr, reel_links,
                 markers_meta, courses_export, features, json, viewVars>>

\* json.dump(courses_export, f)
SaveJson ==
  /\ pc = "save_json"
  /\ json' = courses_export
  /\ files' = files \cup {"courses.json"}
  /\ pc' = "done"
  /\ UNCHANGED <<wb, error, df, has_first_played, has_reel, out, xr, reel_links,
                 markers_meta, courses_export, features, page, viewVars>>

(***************************************************************************)
(* The viewer: the script of index.html                                    *)
(***************************************************************************)
\* !!typeState[t]
Want(ts, t) == t \in DOMAIN ts /\ ts[t]

\* the FeatureGroup a marker was added to: type_groups.get(ctype, type_groups["Public"])
GroupOf(t) == IF t \in TypeNames THEN t ELSE Public

\* the type checkbox is not consulted
MarkerOk_notype(obj, ts, po, vo) ==
  (po => obj.played) /\ (vo => obj.video)

\* the video toggle is not consulted
MarkerOk_novideo(obj, ts, po, vo) ==
  Want(ts, obj.type) /\ (po => obj.played)

\* ok, for one entry of markers
MarkerOk(obj, ts, po, vo) ==
  LET ok0 == Want(ts, obj.type)
      ok1 == IF po THEN ok0 /\ obj.played ELSE ok0
  IN IF vo THEN ok1 /\ obj.video ELSE ok1

\* the loop over typeLayers.  Leaflet adds a group's markers to the map with
\* the group and removes them from the map with the group.
LayerLoop(markers, ts, lo, om) ==
  [layerOn |-> [t \in TypeNames |->
                  IF Want(ts, t) THEN (IF ~lo[t] THEN TRUE ELSE lo[t])
                  ELSE (IF lo[t] THEN FALSE ELSE lo[t])],
   onMap |-> [i \in DOMAIN markers |->
                LET g == GroupOf(markers[i].type) IN
                IF Want(ts, g) /\ ~lo[g] THEN TRUE
                ELSE IF ~Want(ts, g) /\ lo[g] THEN FALSE
                ELSE om[i]]]

\* the loop over markers
MarkerLoop(markers, ts, po, vo, om) ==
  [i \in DOMAIN markers |->
     IF MarkerOk(markers[i], ts, po, vo)
     THEN (IF ~om[i] THEN TRUE ELSE om[i])
     ELSE (IF om[i] THEN FALSE ELSE om[i])]

applyFilters(ts, po, vo) ==
  LET a == LayerLoop(page, ts, layerOn, onMap) IN
  /\ layerOn' = a.layerOn
  /\ onMap' = MarkerLoop(page, ts, po, vo, a.onMap)

\* index.html is opened: every group was added to the map with its markers,
\* every type checkbox is checked, both toggles are clear.  The run has ended;
\* the viewer holds the document only.
OpenDocument ==
  /\ pc = "done"
  /\ pc' = "page_loading"
  /\ wb' = EmptyBook /\ error' = NoError /\ df' = EmptyFrame
  /\ has_first_played' = FALSE /\ has_reel' = FALSE
  /\ out' = EmptyMap /\ xr' = 0 /\ reel_links' = EmptyMap
  /\ markers_meta' = <<>> /\ courses_export' = <<>> /\ features' = <<>>
  /\ files' = {} /\ json' = <<>>
  /\ typeChecked' = AllTypes(TRUE)
  /\ playedOnly' = FALSE
  /\ videoOnly' = FALSE
  /\ layerOn' = AllTypes(TRUE)
  /\ onMap' = [i \in DOMAIN page |-> TRUE]
  /\ page' = page

\* the listener wires the handlers and calls applyFilters()
DOMContentLoaded ==
  /\ pc = "page_loading"
  /\ pc' = "page_ready"
  /\ applyFilters(typeChecked, playedOnly, videoOnly)
  /\ UNCHANGED <<page, runVars, typeChecked, playedOnly, videoOnly>>

\* a type checkbox changes; its handler exists once the listener has run
ChangeType(t) ==
  /\ pc \in {"page_loading", "page_ready"}
  /\ typeChecked' = [typeChecked EXCEPT ![t] = ~@]
  /\ IF pc = "page_ready"
     THEN applyFilters(typeChecked', playedOnly, videoOnly)
     ELSE UNCHANGED <<layerOn, onMap>>
  /\ UNCHANGED <<pc, page, runVars, playedOnly, videoOnly>>

ChangePlayedOnly ==
  /\ pc \in {"page_loading", "page_ready"}
  /\ playedOnly' = ~playedOnly
  /\ IF pc = "page_ready"
     THEN applyFilters(typeChecked, playedOnly', videoOnly)
     ELSE UNCHANGED <<layerOn, onMap>>
  /\ UNCHANGED <<pc, page, runVars, typeChecked, videoOnly>>

ChangeVideoOnly ==
  /\ pc \in {"page_loading", "page_ready"}
  /\ videoOnly' = ~videoOnly
  /\ IF pc = "page_ready"
     THEN applyFilters(typeChecked, playedOnly, videoOnly')
     ELSE UNCHANGED <<layerOn, onMap>>
  /\ UNCHANGED <<pc, page, runVars, typeChecked, playedOnly>>

\* the All button
FilterAll ==
  /\ pc = "page_ready"
  /\ typeChecked' = AllTypes(TRUE)
  /\ applyFilters(typeChecked', playedOnly, videoOnly)
  /\ UNCHANGED <<pc, page, runVars, playedOnly, videoOnly>>

\* the None button
FilterNone ==
  /\ pc = "page_ready"
  /\ typeChecked' = AllTypes(FALSE)
  /\ applyFilters(typeChecked', playedOnly, videoOnly)
  /\ UNCHANGED <<pc, page, runVars, playedOnly, videoOnly>>

(***************************************************************************)
(* The workbooks the run is checked on                                     *)
(***************************************************************************)
\* the course of data row i where the rows are told apart by their names
Name(i) == <<"C">> \o NatToStr(i)

DefaultRow(i) ==
  [course |-> Plain(PyStr(Name(i))),
   type |-> Plain(PyStr(Public)),
   lat |-> Plain(PyNum(38 + i)),
   long |-> Plain(PyNum(0 - 105)),
   played |-> Plain(PyNone),
   reel |-> Plain(PyNone)]

CellFor(row, c) ==
  IF c = COURSE THEN row.course
  ELSE IF c = TYPE THEN row.type
  ELSE IF c = LAT THEN row.lat
  ELSE IF c = LONG THEN row.long
  ELSE IF c = FIRST_PLAYED THEN row.played
  ELSE IF c = REEL THEN row.reel
  ELSE Plain(PyStr(<<"x">>))

\* a sheet with the columns in present; padded puts blanks around every header,
\* extra adds a last column whose header is the number 2024
Book(present, padded, extra, rows) ==
  LET cols == SelectSeq(SheetCols, LAMBDA c : c \in present)
      hdr == [i \in 1..Len(cols) |->
                PyStr(IF padded THEN <<" ">> \o cols[i] \o <<" ">> ELSE cols[i])]
             \o (IF extra THEN <<PyNum(2024)>> ELSE <<>>)
  IN [headers |-> hdr,
      rows |-> [k \in 1..Len(rows) |->
                  [i \in 1..Len(hdr) |->
                     IF i <= Len(cols) THEN CellFor(rows[k], cols[i])
                     ELSE Plain(PyNone)]]]

AllCols == {SheetCols[i] : i \in DOMAIN SheetCols}

RequiredSet == {required_cols[i] : i \in DOMAIN required_cols}

Pad(k) == [i \in 1..k |-> " "]

TypeTexts ==
  {<<>>,
   semi,
   <<"S", "e", "m", "i">>,
   <<"S", "E", "M", "I">>,
   <<"s", "e", "m", "i", " ", "p", "r", "i", "v", "a", "t", "e">>,
   <<"S", "e", "m", "i", " ", "P", "r", "i", "v", "a", "t", "e">>,
   <<"s", "e", "m", "i", "-", "p", "r", "i", "v", "a", "t", "e">>,
   <<"s", "e", "m", "i", "p", "r", "i", "v", "a", "t", "e">>,
   <<"S", "e", "m", "i", " ", "P", "r", "i", "v", "a", "t", "e", " ", "C", "l", "u", "b">>,
   <<"p", "u", "b", "l", "i", "c">>,
   <<"P", "U", "B", "L", "I", "C">>,
   <<"p", "r", "i", "v", "a", "t", "e">>,
   <<"r", "e", "s", "o", "r", "t">>,
   <<"g", "o", "l", "f">>,
   <<"M", "i", "l", "i", "t", "a", "r", "y">>,
   Public, Private, SemiPrivate, Resort}

TypeInputs ==
  {PyStr(Pad(a) \o c \o Pad(b)) : a \in 0..MaxPad, b \in 0..MaxPad, c \in TypeTexts}
    \cup {PyNone, PyNum(7)}

LatCells == {PyNum(39), PyStr(<<"3", "9">>), PyStr(<<"x">>)}

LongCells == {PyNum(0 - 105), PyStr(<<"-", "1", "0", "5">>), PyNone}

UrlT == <<"h", "t", "t", "p", ":", "/", "/", "t">>
UrlV == <<"h", "t", "t", "p", "s", ":", "/", "/", "v">>
Mailto == <<"m", "a", "i", "l", "t", "o", ":", "x">>
Watch == <<"W", "a", "t", "c", "h">>

ReelCells ==
  {Plain(PyNone),
   Plain(PyStr(UrlT)),
   Plain(PyStr(<<" ", "H", "T", "T", "P", ":", "/", "/", "T", " ">>)),
   Cell(PyStr(Watch), "url", UrlV),
   Cell(PyStr(UrlT), "url", UrlV),
   Cell(PyStr(Watch), "url", Mailto),
   Cell(PyStr(UrlT), "loc", <<>>),
   Cell(PyNone, "url", <<" ">> \o UrlV \o <<" ">>)}

ReelNames == {<<"A">>, <<"B">>}

DateText == <<"1", "/", "2", "/", "2", "0", "2", "3">>

PlayedCells ==
  {PyNone,
   PyTs(20230102),
   PyStr(DateText),
   PyStr(<<"0", "3", "/", "0", "4", "/", "2", "0", "2", "1">>),
   PyStr(<<"T", "B", "D">>),
   PyStr(<<" ">>),
   PyStr(EMDASH)}

RowCounts == 0..MaxRows

\* type texts: one row, every Type input
FamTypes ==
  {Book(AllCols, FALSE, FALSE, <<[DefaultRow(1) EXCEPT !.type = Plain(v)]>>) :
     v \in TypeInputs}

\* coordinates: mixes of numbers, numeric text, other text and empty cells
FamCoords ==
  UNION {{Book(AllCols, FALSE, FALSE,
               [i \in 1..n |-> [DefaultRow(i) EXCEPT !.lat = Plain(f[i][1]),
                                                     !.long = Plain(f[i][2])]]) :
            f \in [1..n -> LatCells \X LongCells]} : n \in RowCounts}

\* Reel cells, with course names that may repeat (the first row is named A)
FamReel ==
  UNION {{Book(AllCols, FALSE, FALSE,
               [i \in 1..n |-> [DefaultRow(i) EXCEPT !.course = Plain(PyStr(f[i][1])),
                                                     !.reel = f[i][2]]]) :
            f \in {g \in [1..n -> ReelNames \X ReelCells] : n > 0 => g[1][1] = <<"A">>}} :
           n \in RowCounts}

\* 1st Played cells
FamPlayed ==
  UNION {{Book(AllCols, FALSE, FALSE,
               [i \in 1..n |-> [DefaultRow(i) EXCEPT !.played = Plain(f[i])]]) :
            f \in [1..n -> PlayedCells]} : n \in RowCounts}

\* sheets without one or both of the optional columns 1st Played and Reel
FamOptional ==
  UNION {{Book(AllCols \ drop, FALSE, FALSE,
               [i \in 1..n |-> [DefaultRow(i) EXCEPT !.played = Plain(f[i])]]) :
            f \in [1..n -> {PyNone, PyTs(20230102)}]} :
           n \in RowCounts, drop \in (SUBSET {FIRST_PLAYED, REEL}) \ {{}}}

\* markers of two types, played or not, with a video or not
MapRows ==
  ({Private} \X {PyNone, PyTs(20230102)}
             \X {Plain(PyNone), Cell(PyStr(Watch), "url", UrlV)})
    \cup {<<Public, PyNone, Plain(PyNone)>>,
          <<Public, PyTs(20230102), Cell(PyStr(Watch), "url", UrlV)>>}

FamMap ==
  UNION {{Book(AllCols, FALSE, FALSE,
               [i \in 1..n |-> [DefaultRow(i) EXCEPT
                                  !.type = Plain(PyStr(f[i][1])),
                                  !.played = Plain(f[i][2]),
                                  !.reel = f[i][3]]]) :
            f \in [1..n -> MapRows]} : n \in RowCounts}

\* headers: any required columns left out, padded headers, a header that is a number
FamHeaders ==
  {Book(AllCols \ drop, padded, extra, <<DefaultRow(1)>>) :
     drop \in SUBSET RequiredSet, padded \in BOOLEAN, extra \in BOOLEAN}

Workbooks ==
  FamTypes \cup FamCoords \cup FamReel \cup FamPlayed \cup FamOptional
    \cup FamMap \cup FamHeaders

(***************************************************************************)
(* Specification                                                           *)
(***************************************************************************)
Init ==
  /\ wb \in Workbooks
  /\ pc = "start"
  /\ error = NoError
  /\ df = EmptyFrame
  /\ has_first_played = FALSE
  /\ has_reel = FALSE
  /\ out = EmptyMap
  /\ xr = 0
  /\ reel_links = EmptyMap
  /\ markers_meta = <<>>
  /\ courses_export = <<>>
  /\ features = <<>>
  /\ files = {}
  /\ json = <<>>
  /\ page = <<>>
  /\ typeChecked = AllTypes(TRUE)
  /\ playedOnly = FALSE
  /\ videoOnly = FALSE
  /\ layerOn = AllTypes(TRUE)
  /\ onMap = <<>>

Next ==
  \/ ReadExcel
  \/ Validate
  \/ Prepare
  \/ ExtractOpen
  \/ ExtractRow
  \/ ExtractReturn
  \/ BuildRow
  \/ BuildFeatures
  \/ SaveHtml
  \/ SaveJson
  \/ OpenDocument
  \/ DOMContentLoaded
  \/ \E t \in TypeNames : ChangeType(t)
  \/ ChangePlayedOnly
  \/ ChangeVideoOnly
  \/ FilterAll
  \/ FilterNone

Spec == Init /\ [][Next]_vars

(***************************************************************************)
(* Properties                                                              *)
(***************************************************************************)
Running == pc \notin {"page_loading", "page_ready"}

Loaded == pc \notin {"start", "validate", "prepare", "aborted", "page_loading", "page_ready"}

\* the cell of data row i under the header c of the sheet
WbCell(i, c) == wb.rows[i][SheetHeaders(wb)[c]]

\* the sheet row the k-th record was built from
SourceRow(k) == df.rows[k].idx

AllHeadersText == \A i \in DOMAIN wb.headers : wb.headers[i].t = "str"

TrimmedHeaders == {strip(wb.headers[i].s) : i \in DOMAIN wb.headers}

\* C1: once the listener has run, after any sequence of checkbox changes and
\* All/None clicks, a marker is on the map exactly when its type checkbox is
\* checked, and it is played if playedOnly is checked, and it has a video if
\* videoOnly is checked.
C1_VisibleIffRule ==
  pc = "page_ready" =>
    \A i \in DOMAIN page :
      onMap[i] <=> /\ typeChecked[page[i].type]
                   /\ (~playedOnly \/ page[i].played)
                   /\ (~videoOnly \/ page[i].video)

\* a marker without video is off the map under videoOnly while its type is
\* checked, and another marker is on the map
C1_Witness ==
  /\ pc = "page_ready"
  /\ videoOnly
  /\ \E i \in DOMAIN page : ~page[i].video /\ typeChecked[page[i].type] /\ ~onMap[i]
  /\ \E j \in DOMAIN page : onMap[j]

\* C9: with playedOnly unchecked, unchecking the Private checkbox takes every
\* Private marker off the map whatever its played and video flags, and leaves
\* every marker and every layer of the other types as it was.
C9_UncheckPrivateFrame ==
  [][(pc = "page_ready" /\ ~playedOnly /\ typeChecked[Private] /\ ChangeType(Private))
       => /\ \A i \in DOMAIN page :
               IF page[i].type = Private THEN ~onMap'[i] ELSE onMap'[i] = onMap[i]
          /\ ~layerOn'[Private]
          /\ \A t \in TypeNames \ {Private} : layerOn'[t] = layerOn[t]]_vars

\* Private is unchecked and the other types checked, playedOnly is clear: a
\* played Private marker with a video is off the map, a marker of another type on it
C9_Witness ==
  /\ pc = "page_ready"
  /\ ~playedOnly
  /\ typeChecked = [AllTypes(TRUE) EXCEPT ![Private] = FALSE]
  /\ \E i \in DOMAIN page :
       page[i].type = Private /\ page[i].played /\ page[i].video /\ ~onMap[i]
  /\ \E j \in DOMAIN page : page[j].type # Private /\ onMap[j]

\* C5: normalize_type always yields one of Public, Private, Semi-Private,
\* Resort, and yields the same type when applied again to its own result: the
\* Type column after the first application holds a type of the fixed set, and
\* the type the record loop computes from it is that same type.
C5_NormalizeTotalIdempotent ==
  Loaded =>
    /\ \A i \in DOMAIN df.rows :
         At(df, df.rows[i], TYPE).t = "str" /\ At(df, df.rows[i], TYPE).s \in TypeNames
    /\ \A k \in DOMAIN courses_export :
         /\ courses_export[k].type \in TypeNames
         /\ courses_export[k].type = At(df, df.rows[k], TYPE).s

\* a record was built from a Type cell that holds no type of the set
C5_Witness ==
  /\ pc = "loop"
  /\ \E k \in DOMAIN courses_export :
       /\ WbCell(SourceRow(k), TYPE).v.t = "str"
       /\ lower(strip(WbCell(SourceRow(k), TYPE).v.s)) = <<"g", "o", "l", "f">>
       /\ WbCell(SourceRow(k), TYPE).v.s # strip(WbCell(SourceRow(k), TYPE).v.s)
       /\ courses_export[k].type = Public

SemiTexts ==
  {semi,
   <<"s", "e", "m", "i", " ", "p", "r", "i", "v", "a", "t", "e">>,
   <<"s", "e", "m", "i", "-", "p", "r", "i", "v", "a", "t", "e">>}

\* C6 as stated: every Type text that contains "semi", in any letter case and
\* with any surrounding text, is normalized to Semi-Private.
C6_SemiSubstring ==
  Loaded =>
    \A k \in DOMAIN courses_export :
      LET raw == WbCell(SourceRow(k), TYPE).v IN
      (raw.t = "str" /\ Contains(lower(raw.s), semi))
        => courses_export[k].type = SemiPrivate

\* C6 amended: a Type text is normalized to Semi-Private exactly when, trimmed
\* and lower-cased, it is "semi", "semi private" or "semi-private"; any other
\* text that contains "semi" gets the default, Public.
C6_SemiExact ==
  Loaded =>
    \A k \in DOMAIN courses_export :
      LET raw == WbCell(SourceRow(k), TYPE).v IN
      raw.t = "str" =>
        /\ courses_export[k].type = SemiPrivate <=> lower(strip(raw.s)) \in SemiTexts
        /\ (Contains(lower(raw.s), semi) /\ lower(strip(raw.s)) \notin SemiTexts)
             => courses_export[k].type = Public

\* a record whose Type text contains "semi" was given the default, Public
C6_Witness ==
  /\ pc = "loop"
  /\ \E k \in DOMAIN courses_export :
       /\ Contains(lower(WbCell(SourceRow(k), TYPE).v.s), semi)
       /\ courses_export[k].type = Public

\* a cell that holds a number, or text that reads as one
IsNumberCell(v) == v.t = "num" \/ (v.t = "str" /\ IsNumericText(v.s))

\* the sheet rows with a number in Lat and in Long, in sheet order
ValidRows ==
  SelectSeq([i \in 1..Len(wb.rows) |-> i],
            LAMBDA i : IsNumberCell(WbCell(i, LAT).v) /\ IsNumberCell(WbCell(i, LONG).v))

\* C4: the export holds exactly the rows whose Lat and Long are both numbers,
\* in sheet order: courses_export, markers_meta and the search features have
\* one entry for each such row and none for any other row, and courses.json
\* is that list.
C4_ExportIsValidRows ==
  pc \in {"save_html", "save_json", "done"} =>
    /\ Len(courses_export) = Len(ValidRows)
    /\ Len(markers_meta) = Len(ValidRows)
    /\ Len(features) = Len(ValidRows)
    /\ \A k \in DOMAIN ValidRows :
         /\ courses_export[k].name = clean_text(WbCell(ValidRows[k], COURSE).v)
         /\ courses_export[k].lat = to_numeric(WbCell(ValidRows[k], LAT).v).n
         /\ courses_export[k].lng = to_numeric(WbCell(ValidRows[k], LONG).v).n
         /\ features[k].Course = courses_export[k].name
         /\ features[k].coordinates = <<courses_export[k].lng, courses_export[k].lat>>
    /\ pc = "done" => json = courses_export /\ files = {"index.html", "courses.json"}

\* of two rows the first has no valid coordinates: the one record written is the second row's
C4_Witness ==
  /\ pc = "done"
  /\ Len(wb.rows) = 2
  /\ ~IsNumberCell(WbCell(1, LAT).v)
  /\ Len(json) = 1
  /\ json[1].name = Name(2)

\* the required columns no header of the sheet names, once trimmed
WbMissing == SelectSeq(required_cols, LAMBDA c : c \notin TrimmedHeaders)

C10_NoReelColumn ==
  (Running /\ AllHeadersText /\ Len(WbMissing) = 0 /\ REEL \notin TrimmedHeaders) =>
    /\ pc # "aborted"
    /\ error = NoError
    /\ reel_links = EmptyMap
    /\ \A k \in DOMAIN courses_export :
         /\ courses_export[k].video_url = <<>>
         /\ ~courses_export[k].has_video
         /\ ~markers_meta[k].video

\* a finished run on a sheet without a Reel column that wrote two records
C10_Witness ==
  /\ pc = "done"
  /\ REEL \notin TrimmedHeaders
  /\ Len(json) = 2
  /\ \A k \in DOMAIN json : json[k].video_url = <<>> /\ ~json[k].has_video

\* the target of the cell's annotation, trimmed; empty without one
TargetOf(cell) == IF cell.link = "url" THEN strip(cell.target) ELSE <<>>

\* the cell's display text, trimmed; empty when the value is no text
TextOf(cell) == IF cell.v.t = "str" THEN strip(cell.v.s) ELSE <<>>

HttpScheme == <<"h", "t", "t", "p", ":", "/", "/">>

HttpsScheme == <<"h", "t", "t", "p", "s", ":", "/", "/">>

IsHttpUrl(s) ==
  Len(s) > 0 /\ (startswith(lower(s), HttpScheme) \/ startswith(lower(s), HttpsScheme))

\* C2: every record has has_video true exactly when its video_url is a
\* non-empty text that starts with http:// or https://.
C2_HasVideoIffHttpUrl ==
  \A k \in DOMAIN courses_export :
    courses_export[k].has_video <=> IsHttpUrl(courses_export[k].video_url)

\* a 1st Played value that is a date, or text that parses as one
DateResolved(v) == v.t = "ts" \/ (v.t = "str" /\ to_datetime(strip(v.s)) # 0)

\* C3: every record has played true exactly when its row's 1st Played value
\* resolved to a date; a missing, blank or unparseable value gives played false.
C3_PlayedIffDateResolved ==
  Loaded =>
    \A k \in DOMAIN courses_export :
      courses_export[k].played
        <=> (has_first_played /\ DateResolved(At(df, df.rows[k], FIRST_PLAYED)))

====
